---- MODULE Spec2Model ----
(***************************************************************************)
(* Model of rockcraft's framework extensions (flask-framework and          *)
(* django-framework) and of the applicator that merges their snippets      *)
(* into a rockcraft.yaml manifest.                                         *)
(*                                                                         *)
(* Python values are tagged: S(x) a str, L(x) a list, D(x) a dict.  A      *)
(* Python str is a TLA+ string and is taken apart with Len and SubSeq, so  *)
(* re.match, slicing, os.path.relpath and fnmatch are computed on the      *)
(* characters.  A raising call returns [err |-> kind], a returning call    *)
(* [ok |-> value].                                                         *)
(***************************************************************************)
EXTENDS Integers, Sequences, FiniteSets, TLC

VARIABLES
    project_root,   \* the project directory: files and parsed python sources
    manifest,       \* the manifest apply is called with
    experimental,   \* ROCKCRAFT_ENABLE_EXPERIMENTAL_EXTENSIONS is set
    yaml_data,      \* the applicator's working copy of the manifest
    declared,       \* the extension names still to apply, in order
    pc,             \* position of apply: start, validate, root, merge, return, done
    snippet,        \* the root snippet of the current extension
    result,         \* what apply gave its caller: none, ok (the merged manifest) or err
    visible         \* the manifest the caller goes on with

vars == <<project_root, manifest, experimental, yaml_data, declared, pc,
          snippet, result, visible>>

----------------------------------------------------------------------------
\* Bounds of the model.

\* longest user-declared prime list
MaxPrime == 2
\* most top-level statements in a parsed python file
MaxStmts == 1

----------------------------------------------------------------------------
\* Python values.

S(x) == [str |-> x]
L(x) == [list |-> x]
D(x) == [dict |-> x]
IsList(v) == "list" \in DOMAIN v
IsDict(v) == "dict" \in DOMAIN v
None == "None"
EmptyDict == <<>>

\* dict.get(key, default)
Get(d, k, default) == IF k \in DOMAIN d THEN d[k] ELSE default

\* d[k] = v
Put(d, k, v) == [x \in (DOMAIN d) \cup {k} |-> IF x = k THEN v ELSE d[x]]

UpdateKeep(d, e) == [x \in (DOMAIN d) \cup (DOMAIN e) |-> IF x \in DOMAIN d THEN d[x] ELSE e[x]]

\* d.update(e)
Update(d, e) == [x \in (DOMAIN d) \cup (DOMAIN e) |-> IF x \in DOMAIN e THEN e[x] ELSE d[x]]

\* del d[k]
Del(d, k) == [x \in (DOMAIN d) \ {k} |-> d[x]]

Range(q) == {q[i] : i \in 1..Len(q)}

\* yaml_data.get("parts", {}).get(part, {}).get(key, [])
PartList(yaml, part, key) ==
    LET parts == Get(yaml, "parts", D(EmptyDict)).dict
        p == Get(parts, part, D(EmptyDict)).dict
    IN Get(p, key, L(<<>>)).list

----------------------------------------------------------------------------
\* Strings and paths.

StartsWith(s, prefix) ==
    Len(s) >= Len(prefix) /\ SubSeq(s, 1, Len(prefix)) = prefix

EndsWith(s, suffix) ==
    Len(s) >= Len(suffix) /\ SubSeq(s, Len(s) - Len(suffix) + 1, Len(s)) = suffix

\* s[n:]
DropChars(s, n) == IF n >= Len(s) THEN "" ELSE SubSeq(s, n + 1, Len(s))

\* s[:-n]
DropLast(s, n) == IF n >= Len(s) THEN "" ELSE SubSeq(s, 1, Len(s) - n)

RECURSIVE SkipSpaces(_, _)
SkipSpaces(s, i) ==
    IF i <= Len(s) /\ SubSeq(s, i, i) = " " THEN SkipSpaces(s, i + 1) ELSE i

PrimeMatchNoMarker(prefix, s) == StartsWith(s, prefix)

\* re.match("-? *" + prefix, s)
PrimeMatch(prefix, s) ==
    LET i == IF Len(s) >= 1 /\ SubSeq(s, 1, 1) = "-" THEN 2 ELSE 1
        j == SkipSpaces(s, i)
    IN StartsWith(DropChars(s, j - 1), prefix)

RECURSIVE SplitFrom(_, _, _)
SplitFrom(s, i, cur) ==
    IF i > Len(s) THEN <<cur>>
    ELSE IF SubSeq(s, i, i) = "/" THEN <<cur>> \o SplitFrom(s, i + 1, "")
    ELSE SplitFrom(s, i + 1, cur \o SubSeq(s, i, i))

\* s.split("/")
Split(s) == SplitFrom(s, 1, "")

\* the components of posixpath.normpath(s) for a relative s without ".."
PathParts(s) == SelectSeq(Split(s), LAMBDA c : c # "" /\ c # ".")

RECURSIVE Join(_, _)
Join(parts, sep) ==
    IF parts = <<>> THEN ""
    ELSE IF Len(parts) = 1 THEN parts[1]
    ELSE parts[1] \o sep \o Join(Tail(parts), sep)

RECURSIVE CommonPrefix(_, _)
CommonPrefix(a, b) ==
    IF a = <<>> \/ b = <<>> \/ a[1] # b[1] THEN 0
    ELSE 1 + CommonPrefix(Tail(a), Tail(b))

\* os.path.relpath(path, start), both relative to the working directory
relpath(path, start) ==
    LET p == PathParts(path)
        st == PathParts(start)
        i == CommonPrefix(p, st)
        rel == [k \in 1..(Len(st) - i) |-> ".."] \o SubSeq(p, i + 1, Len(p))
    IN IF rel = <<>> THEN "." ELSE Join(rel, "/")

\* str.replace("/", ".")
ReplaceSlash(s) == Join(Split(s), ".")

\* fnmatch.fnmatch(f, p) for the patterns the extensions use
fnmatch(f, p) ==
    IF StartsWith(p, "*") THEN EndsWith(f, DropChars(p, 1)) ELSE f = p

ExcludePatterns == <<"node_modules", ".git", ".yarn", "*.rock">>

Excluded(f) == \E i \in 1..Len(ExcludePatterns) : fnmatch(f, ExcludePatterns[i])

----------------------------------------------------------------------------
\* The project directory.

\* every file a modelled project may contain, in the order sorted() gives
ProjectFiles ==
    << "app.py", "img.rock", "migrate.sh", "mysite/mysite/wsgi.py",
       "mysite/wsgi.py", "node_modules/x.js", "requirements.txt", "test" >>

\* (project_root / f).exists()
Exists(root, f) ==
    \E p \in root.files : p = f \/ StartsWith(p, f \o "/")

\* (project_root / f).is_file()
IsFile(root, f) == f \in root.files

\* (project_root / f).is_dir()
IsDir(root, f) == f = "" \/ \E p \in root.files : StartsWith(p, f \o "/")

RECURSIVE Uniq(_)
Uniq(q) ==
    IF q = <<>> THEN <<>>
    ELSE LET r == Uniq(SubSeq(q, 1, Len(q) - 1))
         IN IF q[Len(q)] \in Range(r) THEN r ELSE Append(r, q[Len(q)])

\* [f.name for f in sorted(self.project_root.iterdir())]
source_files(root) ==
    LET present == SelectSeq(ProjectFiles, LAMBDA p : p \in root.files)
    IN Uniq([i \in 1..Len(present) |-> Split(present[i])[1]])

\* ast.iter_child_nodes(ast.parse(file.read_text())): does a top-level
\* statement bind `name` in the way the extensions look for
BindsName(stmts, name) ==
    \E i \in 1..Len(stmts) :
        \/ /\ stmts[i].node = "Assign"
           /\ \E t \in 1..Len(stmts[i].targets) :
                 /\ stmts[i].targets[t].node = "Name"
                 /\ stmts[i].targets[t].id = name
        \/ /\ stmts[i].node = "ImportFrom"
           /\ \E n \in 1..Len(stmts[i].names) :
                 \/ stmts[i].names[n].asname # None /\ stmts[i].names[n].asname = name
                 \/ stmts[i].names[n].asname = None /\ stmts[i].names[n].name = name

----------------------------------------------------------------------------
\* Errors: the message each raise carries.

ErrorMessage(kind) ==
    CASE kind = "flask_requirements" ->
            "missing requirements.txt file, flask-framework extension requires this file with flask specified as a dependency"
      [] kind = "flask_no_app_py" ->
            "flask application can not be imported from app:app, no app.py file found in the project root"
      [] kind = "flask_no_app_var" ->
            "flask application can not be imported from app:app, no variable named app in app.py"
      [] kind = "flask_prime_prefix" ->
            "flask-framework extension required prime entry in the flask-framework/install-app part to start with flask/app"
      [] kind = "django_requirements" ->
            "missing requirements.txt file, django extension requires this file with django specified as a dependency"
      [] kind = "django_prime_required" ->
            "django extension requires prime in the django/install-app part"
      [] kind = "django_prime_prefix" ->
            "django extension required prime entry in the django/install-app partto start with django/app"
      [] kind = "django_no_wsgi" ->
            "cannot detect Django WSGI path, no wsgi.py file found in the project"
      [] kind = "django_multiple_wsgi" ->
            "cannot decide Django WSGI path, multiple wsgi.py file found in the project"
      [] kind = "django_no_application" ->
            "cannot detect Django WSGI path, no variable named application in wsgi.py"
      [] kind = "unsupported_base" ->
            "extension does not support base"
      [] kind = "experimental" ->
            "extension is experimental"

RECURSIVE ContainsFrom(_, _, _)
ContainsFrom(s, sub, i) ==
    IF i + Len(sub) - 1 > Len(s) THEN FALSE
    ELSE IF SubSeq(s, i, i + Len(sub) - 1) = sub THEN TRUE
    ELSE ContainsFrom(s, sub, i + 1)

\* sub in str(exc)
Mentions(kind, sub) == ContainsFrom(ErrorMessage(kind), sub, 1)

IsErr(r) == "err" \in DOMAIN r
IsOk(r) == "ok" \in DOMAIN r

----------------------------------------------------------------------------
\* FlaskFramework (a _GunicornBase).  self is [project_root, yaml_data].

FlaskSupportedBases ==
    <<"bare", "ubuntu@20.04", "ubuntu@22.04", "ubuntu:20.04", "ubuntu:22.04">>

FlaskDefaultPrimeTemplate == <<"app", "app.py", "static", "templates">>

FlaskDefaultPrime ==
    <<"app", "app.py", "migrate", "migrate.sh", "migrate.py", "static", "templates">>

\* FlaskFramework.app_prime
app_prime(self) ==
    LET user_prime == PartList(self.yaml_data, "flask-framework/install-app", "prime")
        found == SelectSeq(FlaskDefaultPrime, LAMBDA f : Exists(self.project_root, f))
    IN IF ~ \A i \in 1..Len(user_prime) : PrimeMatch("flask/app", user_prime[i])
       THEN [err |-> "flask_prime_prefix"]
       ELSE IF user_prime = <<>>
            THEN [ok |-> [i \in 1..Len(found) |-> "flask/app/" \o found[i]]]
            ELSE [ok |-> user_prime]

\* FlaskFramework._check_wsgi_path
_check_wsgi_path(self) ==
    IF ~ Exists(self.project_root, "app.py")
    THEN [err |-> "flask_no_app_py"]
    ELSE IF BindsName(self.project_root.source["app.py"], "app")
         THEN [ok |-> None]
         ELSE [err |-> "flask_no_app_var"]

NoFlaskCommandAlways(yaml) == TRUE

\* not self.yaml_data.get("services", {}).get("flask", {}).get("command")
NoFlaskCommand(yaml) ==
    LET services == Get(yaml, "services", D(EmptyDict)).dict
        flask == Get(services, "flask", D(EmptyDict)).dict
    IN Get(flask, "command", S("")).str = ""

check_project_entry_point_first(self) ==
    LET entry == IF NoFlaskCommand(self.yaml_data)
                 THEN _check_wsgi_path(self) ELSE [ok |-> None]
    IN IF IsErr(entry) THEN entry
       ELSE IF ~ Exists(self.project_root, "requirements.txt")
       THEN [err |-> "flask_requirements"]
       ELSE [ok |-> None]

\* FlaskFramework.check_project
check_project(self) ==
    IF ~ Exists(self.project_root, "requirements.txt")
    THEN [err |-> "flask_requirements"]
    ELSE IF NoFlaskCommand(self.yaml_data)
         THEN _check_wsgi_path(self)
         ELSE [ok |-> None]

\* a dict under construction, as the list of its items in insertion order
RECURSIVE DictOf(_)
DictOf(pairs) ==
    IF pairs = <<>> THEN <<>>
    ELSE LET d == DictOf(SubSeq(pairs, 1, Len(pairs) - 1))
             kv == pairs[Len(pairs)]
         IN IF \E i \in 1..Len(d) : d[i][1] = kv[1]
            THEN [i \in 1..Len(d) |-> IF d[i][1] = kv[1] THEN kv ELSE d[i]]
            ELSE Append(d, kv)

\* the dict an item list stands for
AsDict(items) ==
    D([k \in {items[i][1] : i \in 1..Len(items)} |->
          S(items[CHOOSE i \in 1..Len(items) : items[i][1] = k][2])])

GunicornConfig(framework) ==
    "#!/bin/bash\ncraftctl default\nmkdir -p $CRAFT_PART_INSTALL/" \o framework
    \o "/\nGUNICORN_CONFIG=$CRAFT_PART_INSTALL/" \o framework
    \o "/gunicorn.conf.py\necho 'bind = [\"0.0.0.0:8000\"]' > $GUNICORN_CONFIG\necho 'chdir = \"/"
    \o framework \o "/app\"' >> $GUNICORN_CONFIG\n"

renaming_map_listing(self, prime) ==
    LET source_list == source_files(self.project_root)
        kept == SelectSeq(source_list, LAMBDA f : ~ Excluded(f))
    IN DictOf([i \in 1..Len(kept) |-> <<kept[i], "flask/app/" \o kept[i]>>])

\* the renaming_map of _GunicornBase._gen_parts, as its items in order
renaming_map(self, prime) ==
    LET source_list == source_files(self.project_root)
        kept == SelectSeq(source_list, LAMBDA f : ~ Excluded(f))
    IN IF prime # <<>> /\ prime[1] # "" /\ SubSeq(prime[1], 1, 1) # "-"
       THEN DictOf([i \in 1..Len(prime) |-> <<relpath(prime[i], "flask/app"), prime[i]>>])
       ELSE DictOf([i \in 1..Len(kept) |-> <<kept[i], "flask/app/" \o kept[i]>>])

\* list(renaming_map.values())
Values(items) == [i \in 1..Len(items) |-> items[i][2]]

MiscPartPlain(base) ==
    D([k \in {"plugin", "source", "stage-packages"} |->
          CASE k = "plugin" -> S("nil")
            [] k = "source" -> S(".")
            [] k = "stage-packages" -> L(<<"ca-certificates_data">>)])

\* the misc part of _GunicornBase._gen_parts
MiscPart(base) ==
    IF base = "bare"
    THEN D([k \in {"plugin", "source", "override-build", "stage-packages"} |->
              CASE k = "plugin" -> S("nil")
                [] k = "source" -> S(".")
                [] k = "override-build" -> S("mkdir -m 777 ${CRAFT_PART_INSTALL}/tmp")
                [] k = "stage-packages" ->
                       L(<<"bash_bins", "coreutils_bins", "ca-certificates_data">>)])
    ELSE D([k \in {"plugin", "source", "stage-packages"} |->
              CASE k = "plugin" -> S("nil")
                [] k = "source" -> S(".")
                [] k = "stage-packages" -> L(<<"ca-certificates_data">>)])

\* the dependencies part both frameworks generate
DependenciesPart ==
    D([k \in {"plugin", "stage-packages", "source", "python-packages",
              "python-requirements"} |->
          CASE k = "plugin" -> S("python")
            [] k = "stage-packages" -> L(<<"python3-venv">>)
            [] k = "source" -> S(".")
            [] k = "python-packages" -> L(<<"gunicorn">>)
            [] k = "python-requirements" -> L(<<"requirements.txt">>)])

\* _GunicornBase._gen_parts, for the flask framework
_gen_parts(self) ==
    LET prime == app_prime(self)
    IN IF IsErr(prime) THEN prime
       ELSE LET rmap == renaming_map(self, prime.ok)
                install == D([k \in {"plugin", "source", "organize", "stage", "prime"} |->
                      CASE k = "plugin" -> S("dump")
                        [] k = "source" -> S(".")
                        [] k = "organize" -> AsDict(rmap)
                        [] k = "stage" -> L(Values(rmap))
                        [] k = "prime" -> L(prime.ok)])
                config == D([k \in {"plugin", "override-build"} |->
                      CASE k = "plugin" -> S("nil")
                        [] k = "override-build" -> S(GunicornConfig("flask"))])
            IN [ok |-> D([p \in {"flask-framework/dependencies",
                                 "flask-framework/install-app",
                                 "flask-framework/gunicorn-config",
                                 "flask-framework/misc"} |->
                      CASE p = "flask-framework/dependencies" -> DependenciesPart
                        [] p = "flask-framework/install-app" -> install
                        [] p = "flask-framework/gunicorn-config" -> config
                        [] p = "flask-framework/misc" -> MiscPart(self.yaml_data["base"].str)])]

\* the default service of a framework
GunicornService(framework, wsgi_path) ==
    "/bin/python3 -m gunicorn -c /" \o framework \o "/gunicorn.conf.py " \o wsgi_path

\* _GunicornBase.get_root_snippet, for the flask framework
flask_get_root_snippet(self) ==
    LET checked == check_project(self)
        service == D([k \in {"override", "startup", "command", "user"} |->
              CASE k = "override" -> S("replace")
                [] k = "startup" -> S("enabled")
                [] k = "command" -> S(GunicornService("flask", "app:app"))
                [] k = "user" -> S("_daemon_")])
        s1 == [k \in {"run_user", "services"} |->
              CASE k = "run_user" -> S("_daemon_")
                [] k = "services" -> D([n \in {"flask"} |-> service])]
        s2 == IF "build-base" \notin DOMAIN self.yaml_data
                 /\ Get(self.yaml_data, "base", S("bare")).str = "bare"
              THEN Put(s1, "build-base", S("ubuntu@22.04")) ELSE s1
        s3 == IF "platforms" \notin DOMAIN self.yaml_data
              THEN Put(s2, "platforms", D([a \in {"amd64"} |-> D(EmptyDict)])) ELSE s2
        parts == _gen_parts(self)
    IN IF IsErr(checked) THEN checked
       ELSE IF IsErr(parts) THEN parts
       ELSE [ok |-> Put(s3, "parts", parts.ok)]

----------------------------------------------------------------------------
\* The property merger of extensions/_utils.py, which the django extension
\* imports.  Its list rule is the one the extension tests fix: the
\* extension's items first, then the existing items not yet present.

RECURSIVE AppendNew(_, _)
AppendNew(merged, items) ==
    IF items = <<>> THEN merged
    ELSE AppendNew(IF items[1] \in Range(merged) THEN merged
                   ELSE Append(merged, items[1]), Tail(items))

ListMergeAll(extension_list, existing_list) == extension_list \o existing_list

\* the merge of two lists
ListMerge(extension_list, existing_list) == AppendNew(extension_list, existing_list)

RECURSIVE _apply_extension_property(_, _)
_apply_extension_property(existing_property, extension_property) ==
    IF IsList(existing_property) /\ IsList(extension_property)
    THEN L(ListMerge(extension_property.list, existing_property.list))
    ELSE IF IsDict(existing_property) /\ IsDict(extension_property)
    THEN LET e == existing_property.dict
             x == extension_property.dict
         IN D([k \in (DOMAIN e) \cup (DOMAIN x) |->
                 IF k \notin DOMAIN x THEN e[k]
                 ELSE IF k \notin DOMAIN e THEN x[k]
                 ELSE _apply_extension_property(e[k], x[k])])
    ELSE existing_property

----------------------------------------------------------------------------
\* DjangoFramework.  self is [project_root, yaml_data].

DjangoSupportedBases == <<"bare", "ubuntu:20.04", "ubuntu:22.04">>

_merge_part_keep_base(base_part, new_part) ==
    [property_name \in (DOMAIN base_part) \cup (DOMAIN new_part) |->
        IF property_name \in DOMAIN base_part
        THEN base_part[property_name]
        ELSE new_part[property_name]]

\* DjangoFramework._merge_part
_merge_part(base_part, new_part) ==
    [property_name \in (DOMAIN base_part) \cup (DOMAIN new_part) |->
        IF property_name \in DOMAIN base_part /\ property_name \notin DOMAIN new_part
        THEN base_part[property_name]
        ELSE IF property_name \notin DOMAIN base_part /\ property_name \in DOMAIN new_part
        THEN new_part[property_name]
        ELSE _apply_extension_property(base_part[property_name], new_part[property_name])]

_merge_existing_part_replace(self, part_name, part_def) == part_def

\* DjangoFramework._merge_existing_part
_merge_existing_part(self, part_name, part_def) ==
    LET parts == Get(self.yaml_data, "parts", D(EmptyDict)).dict
        existing_part == Get(parts, part_name, D(EmptyDict)).dict
    IN _merge_part(existing_part, part_def)

DjangoGunicornConfig ==
    "#!/bin/bash\ncraftctl default\nmkdir -p $CRAFT_PART_INSTALL/django/\nGUNICORN_CONFIG=$CRAFT_PART_INSTALL/django/gunicorn.conf.py\necho 'bind = [\"0.0.0.0:8000\"]' > $GUNICORN_CONFIG\necho 'chdir = \"/django/app\"' >> $GUNICORN_CONFIG\necho 'statsd_host = \"localhost:9125\"' >> $GUNICORN_CONFIG"

StatsdMapping ==
    "#!/bin/bash\ncraftctl default\nSTATSD_MAPPING_FILE=$CRAFT_PART_INSTALL/statsd-mapping.conf\necho 'mappings:' > $STATSD_MAPPING_FILE\necho '  - match: gunicorn.request.status.*' >> $STATSD_MAPPING_FILE\necho '    name: django_response_code' >> $STATSD_MAPPING_FILE\necho '    labels:' >> $STATSD_MAPPING_FILE\necho '      status: $1' >> $STATSD_MAPPING_FILE\necho '  - match: gunicorn.requests' >> $STATSD_MAPPING_FILE\necho '    name: django_requests' >> $STATSD_MAPPING_FILE\necho '  - match: gunicorn.request.duration' >> $STATSD_MAPPING_FILE\necho '    name: django_request_duration' >> $STATSD_MAPPING_FILE"

\* the parts dict of DjangoFramework._gen_new_parts, before the merge
DjangoParts(self) ==
    LET source_list == source_files(self.project_root)
        kept == SelectSeq(source_list, LAMBDA f : ~ Excluded(f))
        rmap == DictOf([i \in 1..Len(kept) |-> <<kept[i], "django/app/" \o kept[i]>>])
    IN [p \in {"django-framework/install-app", "django-framework/gunicorn-config",
               "django-framework/dependencies", "django-framework/statsd-exporter",
               "django-framework/statsd-mapping"} |->
          CASE p = "django-framework/install-app" ->
                  [k \in {"plugin", "source", "organize", "stage"} |->
                      CASE k = "plugin" -> S("dump")
                        [] k = "source" -> S(".")
                        [] k = "organize" -> AsDict(rmap)
                        [] k = "stage" -> L(Values(rmap))]
            [] p = "django-framework/gunicorn-config" ->
                  [k \in {"plugin", "override-build"} |->
                      CASE k = "plugin" -> S("nil")
                        [] k = "override-build" -> S(DjangoGunicornConfig)]
            [] p = "django-framework/dependencies" -> DependenciesPart.dict
            [] p = "django-framework/statsd-exporter" ->
                  [k \in {"plugin", "build-snaps", "source", "source-tag"} |->
                      CASE k = "plugin" -> S("go")
                        [] k = "build-snaps" -> L(<<"go">>)
                        [] k = "source" -> S("https://github.com/prometheus/statsd_exporter.git")
                        [] k = "source-tag" -> S("v0.26.0")]
            [] p = "django-framework/statsd-mapping" ->
                  [k \in {"plugin", "override-build"} |->
                      CASE k = "plugin" -> S("nil")
                        [] k = "override-build" -> S(StatsdMapping)]]

_gen_new_parts_prefix_first(self) ==
    LET user_prime == PartList(self.yaml_data, "django-framework/install-app", "prime")
        parts == DjangoParts(self)
    IN IF ~ \A i \in 1..Len(user_prime) : PrimeMatch("django/app", user_prime[i])
       THEN [err |-> "django_prime_prefix"]
       ELSE IF ~ Exists(self.project_root, "requirements.txt")
       THEN [err |-> "django_requirements"]
       ELSE IF user_prime = <<>>
       THEN [err |-> "django_prime_required"]
       ELSE [ok |-> [name \in DOMAIN parts |->
                        D(_merge_existing_part(self, name, parts[name]))]]

\* DjangoFramework._gen_new_parts
_gen_new_parts(self) ==
    LET user_prime == PartList(self.yaml_data, "django-framework/install-app", "prime")
        parts == DjangoParts(self)
    IN IF ~ Exists(self.project_root, "requirements.txt")
       THEN [err |-> "django_requirements"]
       ELSE IF user_prime = <<>>
       THEN [err |-> "django_prime_required"]
       ELSE IF ~ \A i \in 1..Len(user_prime) : PrimeMatch("django/app", user_prime[i])
       THEN [err |-> "django_prime_prefix"]
       ELSE [ok |-> [name \in DOMAIN parts |->
                        D(_merge_existing_part(self, name, parts[name]))]]

\* file.glob("**/wsgi.py") for a directory of the project
GlobWsgi(root, dir) ==
    SelectSeq(ProjectFiles,
              LAMBDA p : /\ p \in root.files
                         /\ dir = "" \/ StartsWith(p, dir \o "/")
                         /\ LET c == Split(p) IN c[Len(c)] = "wsgi.py" /\ p # dir)

\* the wsgi_files list of DjangoFramework._get_wsgi_path
RECURSIVE wsgi_files(_, _)
wsgi_files(root, search) ==
    IF search = <<>> THEN <<>>
    ELSE LET file == Join(PathParts(search[1]), "/")
             outside == StartsWith(search[1], "/")
             c == Split(file)
             one == IF ~ outside /\ IsFile(root, file) /\ c[Len(c)] = "wsgi.py"
                    THEN <<file>> ELSE <<>>
             under == IF ~ outside /\ IsDir(root, file)
                      THEN GlobWsgi(root, file) ELSE <<>>
         IN one \o under \o wsgi_files(root, Tail(search))

_get_wsgi_path_first(self) ==
    LET prime == PartList(self.yaml_data, "django-framework/install-app", "prime")
        search == [i \in 1..Len(prime) |-> DropChars(prime[i], Len("django/app/"))]
        found == wsgi_files(self.project_root, search)
    IN IF found = <<>> THEN [err |-> "django_no_wsgi"]
       ELSE IF BindsName(self.project_root.source[found[1]], "application")
       THEN [ok |-> DropLast(ReplaceSlash(found[1]), 3) \o ":application"]
       ELSE [err |-> "django_no_application"]

\* DjangoFramework._get_wsgi_path
_get_wsgi_path(self) ==
    LET prime == PartList(self.yaml_data, "django-framework/install-app", "prime")
        search == [i \in 1..Len(prime) |-> DropChars(prime[i], Len("django/app/"))]
        found == wsgi_files(self.project_root, search)
    IN IF found = <<>> THEN [err |-> "django_no_wsgi"]
       ELSE IF Len(found) >= 2 THEN [err |-> "django_multiple_wsgi"]
       ELSE IF BindsName(self.project_root.source[found[1]], "application")
       THEN [ok |-> DropLast(ReplaceSlash(found[1]), 3) \o ":application"]
       ELSE [err |-> "django_no_application"]

\* DjangoFramework._gen_services
_gen_services(self) ==
    LET wsgi_path == _get_wsgi_path(self)
        django == [k \in {"override", "startup", "command", "after", "user"} |->
              CASE k = "override" -> S("merge")
                [] k = "startup" -> S("enabled")
                [] k = "command" -> S(GunicornService("django", wsgi_path.ok))
                [] k = "after" -> L(<<"statsd-exporter">>)
                [] k = "user" -> S("_daemon_")]
        exporter == [k \in {"override", "summary", "user", "command", "startup"} |->
              CASE k = "override" -> S("merge")
                [] k = "summary" -> S("statsd exporter service")
                [] k = "user" -> S("_daemon_")
                [] k = "command" ->
                       S("/bin/statsd_exporter --statsd.mapping-config=/statsd-mapping.conf")
                [] k = "startup" -> S("enabled")]
        services == [n \in {"django", "statsd-exporter"} |->
                        IF n = "django" THEN django ELSE exporter]
        existing_services == Get(self.yaml_data, "services", D(EmptyDict)).dict
    IN IF IsErr(wsgi_path) THEN wsgi_path
       ELSE [ok |-> [n \in (DOMAIN services) \cup (DOMAIN existing_services) |->
                IF n \in DOMAIN existing_services
                THEN IF n \in DOMAIN services
                     THEN D(Update(services[n], existing_services[n].dict))
                     ELSE existing_services[n]
                ELSE D(services[n])]]

\* DjangoFramework.get_root_snippet
django_get_root_snippet(self) ==
    LET s0 == EmptyDict
        s1 == IF "run_user" \notin DOMAIN self.yaml_data
              THEN Put(s0, "run_user", S("_daemon_")) ELSE s0
        s2 == IF "build-base" \notin DOMAIN self.yaml_data
                 /\ Get(self.yaml_data, "base", S("bare")).str = "bare"
              THEN Put(s1, "build-base", S("ubuntu:22.04")) ELSE s1
        s3 == IF "platforms" \notin DOMAIN self.yaml_data
              THEN Put(s2, "platforms", D([a \in {"amd64"} |-> D(EmptyDict)])) ELSE s2
        current_parts == Get(self.yaml_data, "parts", D(EmptyDict)).dict
        new_parts == _gen_new_parts(self)
        services == _gen_services(self)
    IN IF IsErr(new_parts) THEN new_parts
       ELSE IF IsErr(services) THEN services
       ELSE [ok |-> Put(Put(s3, "parts", D(Update(current_parts, new_parts.ok))),
                        "services", D(services.ok))]

----------------------------------------------------------------------------
\* The applicator: apply_extensions(project_root, yaml_data).

\* the registered extension classes
get_supported_bases(name) ==
    IF name = "flask-framework" THEN FlaskSupportedBases ELSE DjangoSupportedBases

is_experimental_stable(name, base) == FALSE

is_experimental(name, base) == TRUE

get_root_snippet(name, self) ==
    IF name = "flask-framework" THEN flask_get_root_snippet(self)
    ELSE django_get_root_snippet(self)

get_part_snippet(name, self) == EmptyDict

get_parts_snippet(name, self) == EmptyDict

\* Extension.validate: base support, then the experimental gate
validate(name, yaml, enabled) ==
    LET base == Get(yaml, "base", S(None)).str
    IN IF base \notin Range(get_supported_bases(name))
       THEN [err |-> "unsupported_base"]
       ELSE IF is_experimental(name, base) /\ ~ enabled
       THEN [err |-> "experimental"]
       ELSE [ok |-> None]

\* merge one snippet key by key into a dict
MergeInto(existing, extension) ==
    [k \in (DOMAIN existing) \cup (DOMAIN extension) |->
        IF k \notin DOMAIN extension THEN existing[k]
        ELSE IF k \notin DOMAIN existing THEN extension[k]
        ELSE _apply_extension_property(existing[k], extension[k])]

_apply_extension_discard(yaml, root, part, parts) == yaml

\* merging an extension's three snippets into the manifest
_apply_extension(yaml, root, part, parts) ==
    LET y1 == MergeInto(yaml, root)
        y2 == IF "parts" \in DOMAIN y1 THEN y1 ELSE Put(y1, "parts", D(EmptyDict))
        p2 == [n \in DOMAIN y2["parts"].dict |-> D(MergeInto(y2["parts"].dict[n].dict, part))]
        p3 == [n \in (DOMAIN p2) \cup (DOMAIN parts) |->
                 IF n \notin DOMAIN parts THEN p2[n]
                 ELSE D(MergeInto(Get(p2, n, D(EmptyDict)).dict, parts[n].dict))]
    IN Put(y2, "parts", D(p3))

PublishAlways(outcome, input, merged) == merged

\* what the caller goes on with once apply has ended
Publish(outcome, input, merged) == IF IsOk(outcome) THEN merged ELSE input

Self == [project_root |-> project_root, yaml_data |-> yaml_data]

Raise(kind) ==
    /\ result' = [err |-> kind]
    /\ visible' = Publish([err |-> kind], manifest, yaml_data)
    /\ pc' = "done"
    /\ UNCHANGED <<yaml_data, declared, snippet>>

\* copy the manifest, read and delete its extensions key
Start ==
    /\ pc = "start"
    /\ yaml_data' = Del(manifest, "extensions")
    /\ declared' = manifest["extensions"].list
    /\ pc' = "validate"
    /\ UNCHANGED <<project_root, manifest, experimental, snippet, result, visible>>

\* instantiate the next extension and validate it
Validate ==
    /\ pc = "validate"
    /\ LET v == validate(Head(declared), yaml_data, experimental)
       IN IF IsErr(v) THEN Raise(v.err)
          ELSE /\ pc' = "root"
               /\ UNCHANGED <<yaml_data, declared, snippet, result, visible>>
    /\ UNCHANGED <<project_root, manifest, experimental>>

\* ask the extension for its root snippet
RootSnippet ==
    /\ pc = "root"
    /\ LET r == get_root_snippet(Head(declared), Self)
       IN IF IsErr(r) THEN Raise(r.err)
          ELSE /\ snippet' = r.ok
               /\ pc' = "merge"
               /\ UNCHANGED <<yaml_data, declared, result, visible>>
    /\ UNCHANGED <<project_root, manifest, experimental>>

\* merge the snippets into the working copy and go to the next extension
Merge ==
    /\ pc = "merge"
    /\ yaml_data' = _apply_extension(yaml_data, snippet,
                                     get_part_snippet(Head(declared), Self),
                                     get_parts_snippet(Head(declared), Self))
    /\ declared' = Tail(declared)
    /\ pc' = IF Tail(declared) = <<>> THEN "return" ELSE "validate"
    /\ snippet' = EmptyDict
    /\ UNCHANGED <<project_root, manifest, experimental, result, visible>>

\* hand the merged manifest to the caller
Return ==
    /\ pc = "return"
    /\ result' = [ok |-> yaml_data]
    /\ visible' = Publish([ok |-> yaml_data], manifest, yaml_data)
    /\ pc' = "done"
    /\ UNCHANGED <<project_root, manifest, experimental, yaml_data, declared, snippet>>

Next == Start \/ Validate \/ RootSnippet \/ Merge \/ Return

----------------------------------------------------------------------------
\* The projects and manifests apply is called with.

SeqsUpTo(X, n) == UNION {[1..k -> X] : k \in 0..n}

Name(id) == [node |-> "Name", id |-> id]
Alias(name, asname) == [name |-> name, asname |-> asname]
Assign(target) == [node |-> "Assign", targets |-> <<target>>, names |-> <<>>]
AnnAssign(target) == [node |-> "AnnAssign", targets |-> <<target>>, names |-> <<>>]
ImportFrom(alias) == [node |-> "ImportFrom", targets |-> <<>>, names |-> <<alias>>]
Import(alias) == [node |-> "Import", targets |-> <<>>, names |-> <<alias>>]
Expr == [node |-> "Expr", targets |-> <<>>, names |-> <<>>]

\* top-level statements of an app.py
AppStatements ==
    { Assign(Name("app")), Assign(Name("application")), AnnAssign(Name("app")),
      ImportFrom(Alias("app", None)), ImportFrom(Alias("create_app", "app")),
      ImportFrom(Alias("app", "application")), Import(Alias("wsgi", "app")), Expr }

GoodApp == <<Assign(Name("app"))>>
BadApp == <<Expr>>
GoodWsgi == <<Assign(Name("application"))>>

FlaskFiles == {"app.py", "migrate.sh", "node_modules/x.js", "requirements.txt", "test"}

DjangoFiles == {"img.rock", "mysite/mysite/wsgi.py", "mysite/wsgi.py", "requirements.txt"}

FlaskPrimeEntries ==
    {"flask/app/app.py", "flask/app/test", "- flask/app/test", "-flask/app/test",
     "flask/app.py", "app.py"}

DjangoPrimeEntries ==
    {"django/app/mysite", "django/app/mysite/mysite", "- django/app/img.rock", "mysite"}

Requirements == {"requirements-jammy.txt", "requirements.txt"}

\* a project: its files and the statements of its python sources
Project(files, app, wsgi) ==
    [files |-> files,
     source |-> [f \in {g \in files : EndsWith(g, ".py")} |->
                    IF f = "app.py" THEN app ELSE wsgi]]

\* a dict from the list of its items
FromItems(items) ==
    [k \in {items[i][1] : i \in 1..Len(items)} |->
        items[CHOOSE i \in 1..Len(items) : items[i][1] = k][2]]

\* an option is <<>> (key absent) or <<value>>
Item(key, option, kind) ==
    IF option = <<>> THEN <<>>
    ELSE << <<key, IF kind = "list" THEN L(option[1]) ELSE S(option[1])>> >>

Section(key, items) == IF items = <<>> THEN <<>> ELSE << <<key, D(FromItems(items))>> >>

Options(X) == {<<>>} \cup {<<x>> : x \in X}

\* a rockcraft.yaml: base, extensions, and the user's parts and services
Manifest(base, extensions, fprime, freq, dprime, dreq, command) ==
    LET finstall == Section("flask-framework/install-app", Item("prime", fprime, "list"))
        fdeps == Section("flask-framework/dependencies",
                         Item("python-requirements", freq, "list"))
        dinstall == Section("django-framework/install-app", Item("prime", dprime, "list"))
        ddeps == Section("django-framework/dependencies",
                         Item("python-requirements", dreq, "list"))
        flask == Section("flask", Item("command", command, "str"))
    IN FromItems(<< <<"base", S(base)>>, <<"extensions", L(extensions)>> >>
                 \o Section("parts", finstall \o fdeps \o dinstall \o ddeps)
                 \o Section("services", flask))

\* the state in which apply is called
Call(project, yaml, enabled) ==
    /\ project_root = project
    /\ manifest = yaml
    /\ experimental = enabled
    /\ visible = yaml
    /\ yaml_data = EmptyDict
    /\ declared = <<>>
    /\ pc = "start"
    /\ snippet = EmptyDict
    /\ result = [none |-> TRUE]

CustomCommand == "/bin/python3 -m gunicorn -c /flask/gunicorn.conf.py webapp:app"

\* flask: every app.py content, with one prime entry at most
FlaskEntryPointCalls ==
    \E files \in SUBSET (FlaskFiles \ {"app.py"}),
       app \in SeqsUpTo(AppStatements, MaxStmts),
       fprime \in {<<>>, << <<"flask/app/app.py">> >>, << <<"app.py">> >>},
       cmd \in Options({"", CustomCommand}) :
        Call(Project(files \cup {"app.py"}, app, <<>>),
             Manifest("ubuntu@22.04", <<"flask-framework">>, fprime, <<>>, <<>>, <<>>, cmd),
             TRUE)

\* flask: every prime list
FlaskPrimeCalls ==
    \E files \in SUBSET FlaskFiles,
       app \in {GoodApp, BadApp},
       base \in {"bare", "ubuntu@22.04"},
       fprime \in Options(SeqsUpTo(FlaskPrimeEntries, MaxPrime)),
       cmd \in Options({CustomCommand}) :
        Call(Project(files, app, <<>>),
             Manifest(base, <<"flask-framework">>, fprime, <<>>, <<>>, <<>>, cmd), TRUE)

\* flask and django: user-declared python-requirements
RequirementsCalls ==
    \E files \in {{"app.py", "requirements.txt", "mysite/mysite/wsgi.py"},
                  {"app.py", "mysite/mysite/wsgi.py"}},
       ext \in {"flask-framework", "django-framework"},
       freq \in Options({<<r>> : r \in Requirements}),
       dreq \in Options({<<r>> : r \in Requirements}) :
        Call(Project(files, GoodApp, GoodWsgi),
             Manifest("bare", <<ext>>, <<>>, freq,
                      << <<"django/app/mysite/mysite">> >>, dreq, <<>>), TRUE)

\* django: every prime list
DjangoCalls ==
    \E files \in SUBSET DjangoFiles,
       wsgi \in {GoodWsgi, BadApp},
       base \in {"bare", "ubuntu:22.04"},
       dprime \in Options(SeqsUpTo(DjangoPrimeEntries, MaxPrime)) :
        Call(Project(files, <<>>, wsgi),
             Manifest(base, <<"django-framework">>, <<>>, <<>>, dprime, <<>>, <<>>), TRUE)

\* two extensions, and the applicability checks
MultiCalls ==
    \E files \in {{"app.py", "requirements.txt", "mysite/mysite/wsgi.py"},
                  {"app.py", "requirements.txt"},
                  {"requirements.txt", "mysite/mysite/wsgi.py"},
                  {"app.py", "mysite/mysite/wsgi.py"}},
       base \in {"bare", "ubuntu@22.04", "ubuntu:22.04", "ubuntu@24.04"},
       exts \in {<<"flask-framework">>, <<"django-framework">>,
                 <<"flask-framework", "django-framework">>,
                 <<"django-framework", "flask-framework">>},
       fprime \in {<<>>, << <<"app.py">> >>},
       dprime \in {<<>>, << <<"django/app/mysite">> >>, << <<"mysite">> >>},
       enabled \in BOOLEAN :
        Call(Project(files, GoodApp, GoodWsgi),
             Manifest(base, exts, fprime, <<>>, dprime, <<>>, <<>>), enabled)

\* a top-level key the user may have declared
WithKey(yaml, key, option) == IF option = <<>> THEN yaml ELSE Put(yaml, key, option[1])

\* valid projects, with or without a user-declared build-base
RootDefaultsCalls ==
    \E base \in {"bare", "ubuntu@22.04", "ubuntu:22.04"},
       exts \in {<<"flask-framework">>, <<"django-framework">>,
                 <<"flask-framework", "django-framework">>,
                 <<"django-framework", "flask-framework">>},
       build \in Options({S("ubuntu@20.04")}) :
        Call(Project({"app.py", "requirements.txt", "mysite/mysite/wsgi.py"}, GoodApp, GoodWsgi),
             WithKey(Manifest(base, exts, <<>>, <<>>, << <<"django/app/mysite">> >>, <<>>, <<>>),
                     "build-base", build),
             TRUE)

\* the bodies of user-declared services
ServiceBodies ==
    { D(FromItems(<< <<"command", S("/bin/foobar")>> >>)),
      D(FromItems(<< <<"command", S("/bin/foobar")>>, <<"override", S("replace")>> >>)),
      D(FromItems(<< <<"startup", S("disabled")>>, <<"after", L(<<"redis">>)>> >>)) }

\* a dict of the keys whose option is not <<>>
Chosen(options) ==
    [k \in {n \in DOMAIN options : options[n] # <<>>} |-> options[k][1]]

\* valid projects, with user-declared services
ServiceCalls ==
    \E ext \in {"flask-framework", "django-framework"},
       services \in [{"flask", "django", "statsd-exporter", "foobar"} -> Options(ServiceBodies)] :
        Call(Project({"app.py", "requirements.txt", "mysite/mysite/wsgi.py"}, GoodApp, GoodWsgi),
             WithKey(Manifest("bare", <<ext>>, <<>>, <<>>, << <<"django/app/mysite">> >>, <<>>, <<>>),
                     "services",
                     IF Chosen(services) = EmptyDict THEN <<>> ELSE <<D(Chosen(services))>>),
             TRUE)

\* valid projects, with user-declared steps that have keys of their own
StepCalls ==
    \E exts \in {<<"flask-framework">>, <<"django-framework">>,
                 <<"flask-framework", "django-framework">>,
                 <<"django-framework", "flask-framework">>,
                 <<"flask-framework", "flask-framework">>},
       fextra \in Options({<<"gcc">>}),
       dextra \in Options({<<"gcc">>}),
       other \in Options({"nil"}) :
        Call(Project({"app.py", "requirements.txt", "mysite/mysite/wsgi.py"}, GoodApp, GoodWsgi),
             WithKey(Manifest("bare", exts, <<>>, <<>>, <<>>, <<>>, <<>>),
                     "parts",
                     <<D(FromItems(
                          Section("flask-framework/dependencies",
                                  Item("build-packages", fextra, "list"))
                          \o Section("django-framework/dependencies",
                                      Item("build-packages", dextra, "list"))
                          \o Section("django-framework/install-app",
                                      Item("prime", << <<"django/app/mysite">> >>, "list"))
                          \o Section("mypart", Item("plugin", other, "str"))))>>),
             TRUE)

\* rockcraft init: TEMPLATES[profile].format(name=name), as the mapping the
\* written rockcraft.yaml loads to
TEMPLATES(profile, name) ==
    LET common == << <<"name", S(name)>>, <<"base", S("ubuntu@22.04")>>,
                     <<"version", S("0.1")>>, <<"summary", S("summary")>>,
                     <<"description", S("description")>>,
                     <<"license", S("GPL-3.0")>>,
                     <<"platforms", D(FromItems(<< <<"amd64", S(None)>> >>))>> >>
    IN IF profile = "simple"
       THEN FromItems(common \o << <<"parts", D(FromItems(<< <<"my-part",
                          D(FromItems(<< <<"plugin", S("nil")>> >>))>> >>))>> >>)
       ELSE FromItems(common \o << <<"extensions", L(<<profile>>)>> >>)

\* the profiles that declare an extension
FrameworkProfiles == {"flask-framework", "django-framework"}

\* apply called on the manifest that init has just written
InitCalls ==
    \E profile \in FrameworkProfiles,
       name \in {"my-rock-name"},
       files \in {{}, {"requirements.txt"},
                  {"app.py", "requirements.txt"},
                  {"mysite/mysite/wsgi.py", "requirements.txt"}},
       enabled \in BOOLEAN :
        Call(Project(files, GoodApp, GoodWsgi), TEMPLATES(profile, name), enabled)

Init ==
    \/ InitCalls
    \/ RootDefaultsCalls
    \/ StepCalls
    \/ ServiceCalls
    \/ FlaskEntryPointCalls
    \/ FlaskPrimeCalls
    \/ RequirementsCalls
    \/ DjangoCalls
    \/ MultiCalls

Spec == Init /\ [][Next]_vars


----------------------------------------------------------------------------
\* What the claims speak about.

Extensions == manifest["extensions"].list

\* the manifest the first extension is given
Given == Del(manifest, "extensions")

Finished == pc = "done"

Succeeded == pc = "done" /\ IsOk(result)

Failed == pc = "done" /\ IsErr(result)

\* a part of the merged manifest
FinalPart(part) == result.ok["parts"].dict[part].dict

----------------------------------------------------------------------------
\* C1: apply is all-or-nothing.  Until apply has returned a merged manifest
\* the caller sees the manifest it passed in, and when an extension raises,
\* also after an earlier extension was merged into the working copy, the
\* caller-visible manifest is the input manifest.
C1_AllOrNothing ==
    /\ ~ Succeeded => visible = manifest
    /\ Failed => visible = manifest /\ "extensions" \in DOMAIN visible

\* the second of two extensions raised after the first was merged
C1_Witness ==
    /\ Failed
    /\ Len(Extensions) = 2
    /\ Len(declared) = 1
    /\ "services" \in DOMAIN yaml_data
    /\ "services" \notin DOMAIN manifest
    /\ visible = manifest


----------------------------------------------------------------------------
\* Vocabulary of the claims about the framework extensions.

FlaskOnly == Extensions = <<"flask-framework">>

DjangoOnly == Extensions = <<"django-framework">>

\* the framework name of an extension
FrameworkOf(name) == IF name = "flask-framework" THEN "flask" ELSE "django"

InstallApp(name) == name \o "/install-app"

\* the user declared a prime list for the part
DeclaresPrime(part) ==
    /\ "parts" \in DOMAIN manifest
    /\ part \in DOMAIN manifest["parts"].dict
    /\ "prime" \in DOMAIN manifest["parts"].dict[part].dict

UserPrime(part) == PartList(manifest, part, "prime")

\* the manifest declares services.flask with a non-empty command
HasCustomCommand ==
    /\ "services" \in DOMAIN manifest
    /\ "flask" \in DOMAIN manifest["services"].dict
    /\ "command" \in DOMAIN manifest["services"].dict["flask"].dict
    /\ manifest["services"].dict["flask"].dict["command"].str # ""

\* the entry carries the leading exclusion marker
Marked(entry) == StartsWith(entry, "-")

RECURSIVE LStrip(_)
LStrip(s) == IF StartsWith(s, " ") THEN LStrip(DropChars(s, 1)) ELSE s

\* the entry without its exclusion marker and the spaces after it
Unmarked(entry) == LStrip(IF Marked(entry) THEN DropChars(entry, 1) ELSE entry)

\* the entry begins with <framework>/app
HasPrefix(entry, framework) == StartsWith(Unmarked(entry), framework \o "/app")

AllPrefixed(prime, framework) ==
    \A i \in 1..Len(prime) : HasPrefix(prime[i], framework)

\* the top-level entries of the project that no exclusion glob matches
ListedNames ==
    {n \in {Split(f)[1] : f \in project_root.files} :
        n \notin {"node_modules", ".git", ".yarn"} /\ ~ EndsWith(n, ".rock")}

\* the organize map computed from the project-root listing
ListingMap(framework) == [n \in ListedNames |-> S(framework \o "/app/" \o n)]

NoRepeats(q) == \A i, j \in 1..Len(q) : q[i] = q[j] => i = j

\* the list holds each destination of the map once
StagesMap(stage, map) ==
    NoRepeats(stage) /\ Range(stage) = {map[k].str : k \in DOMAIN map}

EntryPointErrors == {"flask_no_app_py", "flask_no_app_var"}

PrefixErrors == {"flask_prime_prefix", "django_prime_prefix"}

----------------------------------------------------------------------------
\* C2: when an extension is asked for its snippet and the project root has
\* no requirements.txt, apply fails with an error whose message mentions
\* requirements.txt, whatever app.py, the prime list and the service command
\* are, and the caller's manifest is unchanged.
C2_MissingRequirements ==
    [][(pc = "root" /\ ~ Exists(project_root, "requirements.txt"))
        => /\ pc' = "done"
           /\ IsErr(result')
           /\ Mentions(result'.err, "requirements.txt")
           /\ visible' = manifest]_vars

\* flask failed on requirements.txt although app.py binds app, a custom
\* command is declared and the prime list has a wrongly prefixed entry
C2_Witness ==
    /\ Failed
    /\ FlaskOnly
    /\ ~ Exists(project_root, "requirements.txt")
    /\ Mentions(result.err, "requirements.txt")
    /\ Exists(project_root, "app.py")
    /\ HasCustomCommand
    /\ ~ AllPrefixed(UserPrime("flask-framework/install-app"), "flask")
    /\ visible = manifest

\* C3: for flask, with a non-empty services.flask.command, the entry-point
\* check is not performed: the derivation succeeds whether app.py is absent
\* or does not bind app, provided requirements.txt exists and every prime
\* entry has the flask/app prefix.
C3_CustomCommandSkipsEntryPoint ==
    [][(/\ pc = "root"
        /\ Head(declared) = "flask-framework"
        /\ HasCustomCommand
        /\ Exists(project_root, "requirements.txt")
        /\ AllPrefixed(UserPrime("flask-framework/install-app"), "flask"))
        => pc' = "merge" /\ ~ IsErr(result')]_vars

\* apply succeeded with a custom command and no app.py
C3_Witness ==
    /\ Succeeded
    /\ FlaskOnly
    /\ HasCustomCommand
    /\ ~ Exists(project_root, "app.py")

\* a top-level statement assigns to the variable or imports the name
ClaimBinds(stmts, name) ==
    \E i \in 1..Len(stmts) :
        \/ /\ stmts[i].node \in {"Assign", "AnnAssign"}
           /\ \E t \in 1..Len(stmts[i].targets) :
                 stmts[i].targets[t] = Name(name)
        \/ /\ stmts[i].node \in {"Import", "ImportFrom"}
           /\ \E n \in 1..Len(stmts[i].names) :
                 name = IF stmts[i].names[n].asname = None
                        THEN stmts[i].names[n].name
                        ELSE stmts[i].names[n].asname

\* C4: for flask without a custom command, the entry-point check passes if
\* and only if app.py exists and a top-level statement assigns to app or
\* imports the name app (directly or through an alias); otherwise apply
\* fails with an error that mentions app:app.
C4_EntryPointCheck ==
    [][(/\ pc = "root"
        /\ Head(declared) = "flask-framework"
        /\ ~ HasCustomCommand
        /\ Exists(project_root, "requirements.txt"))
        => IF /\ Exists(project_root, "app.py")
              /\ ClaimBinds(project_root.source["app.py"], "app")
           THEN ~ (IsErr(result') /\ result'.err \in EntryPointErrors)
           ELSE IsErr(result') /\ Mentions(result'.err, "app:app")]_vars

\* C5 as stated: a prime entry without the <framework>/app prefix makes
\* apply fail with an error that mentions the prefix.
C5_Original ==
    [][(pc = "root" /\ LET fw == FrameworkOf(Head(declared))
                       IN ~ AllPrefixed(UserPrime(InstallApp(Head(declared))), fw))
        => /\ IsErr(result')
           /\ Mentions(result'.err, FrameworkOf(Head(declared)) \o "/app")]_vars

\* C5: if some user-declared prime entry (without its marker and the spaces
\* after it) does not begin with <framework>/app, apply fails, and the error
\* mentions the prefix unless the requirements.txt check or, for flask, the
\* entry-point check failed first; if every entry has the prefix, the prefix
\* validation does not fail.
C5_PrefixValidation ==
    [][pc = "root" =>
        LET fw == FrameworkOf(Head(declared))
            prime == UserPrime(InstallApp(Head(declared)))
            earlier == {"flask_requirements", "django_requirements"} \cup EntryPointErrors
        IN IF AllPrefixed(prime, fw)
           THEN ~ (IsErr(result') /\ result'.err \in PrefixErrors)
           ELSE /\ IsErr(result')
                /\ result'.err \notin earlier => Mentions(result'.err, fw \o "/app")
                /\ (Exists(project_root, "requirements.txt") /\ HasCustomCommand)
                      => result'.err \in PrefixErrors]_vars

\* flask rejected a prime list whose marked entry has the prefix and whose
\* other entry has not
C5_Witness ==
    /\ Failed
    /\ FlaskOnly
    /\ result.err = "flask_prime_prefix"
    /\ UserPrime("flask-framework/install-app") = <<"- flask/app/test", "app.py">>

----------------------------------------------------------------------------
Dependencies(name) == name \o "/dependencies"

DeclaresRequirements(part) ==
    /\ "parts" \in DOMAIN manifest
    /\ part \in DOMAIN manifest["parts"].dict
    /\ "python-requirements" \in DOMAIN manifest["parts"].dict[part].dict

\* requirements.txt first, then the user's item unless it is that same item
MergedRequirements(user) ==
    <<"requirements.txt">> \o SelectSeq(user, LAMBDA x : x # "requirements.txt")

KeepsDefaultKeys(part) ==
    /\ part["plugin"] = S("python")
    /\ part["source"] = S(".")
    /\ part["python-packages"] = L(<<"gunicorn">>)
    /\ part["stage-packages"] = L(<<"python3-venv">>)

\* C6: for flask and django, a user who declares only python-requirements
\* [X] on the framework's dependencies step gets, in the final manifest,
\* python-requirements [requirements.txt, X] (each once) and the default
\* plugin, source, python-packages and stage-packages unchanged.
C6_RequirementsMerge ==
    \A name \in {"flask-framework", "django-framework"} :
        (/\ Succeeded
         /\ Extensions = <<name>>
         /\ DeclaresRequirements(Dependencies(name))
         /\ DOMAIN manifest["parts"].dict[Dependencies(name)].dict = {"python-requirements"})
        => /\ FinalPart(Dependencies(name))["python-requirements"]
                = L(MergedRequirements(PartList(manifest, Dependencies(name), "python-requirements")))
           /\ KeepsDefaultKeys(FinalPart(Dependencies(name)))

\* django merged the user's requirements-jammy.txt after requirements.txt
C6_Witness ==
    /\ Succeeded
    /\ DjangoOnly
    /\ PartList(manifest, "django-framework/dependencies", "python-requirements")
          = <<"requirements-jammy.txt">>
    /\ FinalPart("django-framework/dependencies")["python-requirements"]
          = L(<<"requirements.txt", "requirements-jammy.txt">>)

\* C7: for flask, when the user-declared prime list has an exclusion-marked
\* entry at any position, the list is passed through verbatim: the final
\* prime holds the user's entries, and organize and stage are computed from
\* the project-root listing.
C7_ExclusionMarkedPrime ==
    LET part == "flask-framework/install-app"
        user == UserPrime(part)
    IN (/\ Succeeded
        /\ FlaskOnly
        /\ \E i \in 1..Len(user) : Marked(user[i]))
       => /\ Range(user) \subseteq Range(FinalPart(part)["prime"].list)
          /\ FinalPart(part)["organize"] = D(ListingMap("flask"))
          /\ StagesMap(FinalPart(part)["stage"].list, ListingMap("flask"))

\* path relative to flask/app -> entry, for the entries of the list
InvertedMap(prime) ==
    [k \in {relpath(prime[i], "flask/app") : i \in 1..Len(prime)} |->
        S(prime[CHOOSE i \in 1..Len(prime) :
                   /\ relpath(prime[i], "flask/app") = k
                   /\ \A j \in 1..Len(prime) :
                         relpath(prime[j], "flask/app") = k => j <= i])]

----------------------------------------------------------------------------
PrimeRequired == "django_prime_required"

ApplicabilityErrors == {"unsupported_base", "experimental"}

\* the default flask names that exist at the project root, in their order
DefaultNames ==
    SelectSeq(<<"app", "app.py", "migrate", "migrate.sh", "migrate.py", "static", "templates">>,
              LAMBDA n : n \in ListedNames)

DefaultMap == [n \in Range(DefaultNames) |-> S("flask/app/" \o n)]

TemplateNames ==
    SelectSeq(<<"app", "app.py", "static", "templates">>, LAMBDA n : n \in ListedNames)

TemplatePrime == [i \in 1..Len(TemplateNames) |-> "flask/app/" \o TemplateNames[i]]

\* C10: for flask without a user-declared prime list, only app, app.py,
\* static and templates (those that exist) are copied into the image: the
\* final prime and stage are their flask/app destinations and organize maps
\* exactly them.
C10_DefaultCopiedFiles ==
    (/\ Succeeded
     /\ FlaskOnly
     /\ ~ DeclaresPrime("flask-framework/install-app"))
    => /\ FinalPart("flask-framework/install-app")["prime"] = L(TemplatePrime)
       /\ FinalPart("flask-framework/install-app")["stage"] = L(TemplatePrime)
       /\ DOMAIN FinalPart("flask-framework/install-app")["organize"].dict
             = Range(TemplateNames)

----------------------------------------------------------------------------
\* the manifest the extension at work was instantiated with
Base == yaml_data["base"].str

DefaultBuildBase(name) ==
    IF name = "flask-framework" THEN S("ubuntu@22.04") ELSE S("ubuntu:22.04")

BareMisc ==
    [k \in {"plugin", "source", "override-build", "stage-packages"} |->
        CASE k = "plugin" -> S("nil")
          [] k = "source" -> S(".")
          [] k = "override-build" -> S("mkdir -m 777 ${CRAFT_PART_INSTALL}/tmp")
          [] k = "stage-packages" -> L(<<"bash_bins", "coreutils_bins", "ca-certificates_data">>)]

PlainMisc ==
    [k \in {"plugin", "source", "stage-packages"} |->
        CASE k = "plugin" -> S("nil")
          [] k = "source" -> S(".")
          [] k = "stage-packages" -> L(<<"ca-certificates_data">>)]

----------------------------------------------------------------------------
FlaskSteps ==
    {"flask-framework/dependencies", "flask-framework/install-app",
     "flask-framework/gunicorn-config", "flask-framework/misc"}

\* requirements.txt is present and app.py binds app
MinimalFlaskProject ==
    /\ Exists(project_root, "requirements.txt")
    /\ Exists(project_root, "app.py")
    /\ ClaimBinds(project_root.source["app.py"], "app")

\* C12: for a minimal flask project (requirements.txt, app.py binding app)
\* and a manifest with a supported base, the flask extension and no user
\* parts or services, apply succeeds and the final manifest has exactly the
\* four flask steps, exactly the service flask (override replace, startup
\* enabled, user _daemon_, a gunicorn command targeting app:app), run_user
\* _daemon_, platforms {amd64: {}} and no extensions key.
C12_MinimalFlask ==
    (/\ Finished
     /\ FlaskOnly
     /\ experimental
     /\ manifest["base"].str \in Range(FlaskSupportedBases)
     /\ "parts" \notin DOMAIN manifest
     /\ "services" \notin DOMAIN manifest
     /\ MinimalFlaskProject)
    => /\ Succeeded
       /\ DOMAIN result.ok["parts"].dict = FlaskSteps
       /\ DOMAIN result.ok["services"].dict = {"flask"}
       /\ LET flask == result.ok["services"].dict["flask"].dict
          IN /\ DOMAIN flask = {"override", "startup", "command", "user"}
             /\ flask["override"] = S("replace")
             /\ flask["startup"] = S("enabled")
             /\ flask["user"] = S("_daemon_")
             /\ StartsWith(flask["command"].str, "/bin/python3 -m gunicorn ")
             /\ EndsWith(flask["command"].str, " app:app")
       /\ result.ok["run_user"] = S("_daemon_")
       /\ result.ok["platforms"] = D([a \in {"amd64"} |-> D(EmptyDict)])
       /\ "extensions" \notin DOMAIN result.ok

----------------------------------------------------------------------------
UserServices == Get(manifest, "services", D(EmptyDict)).dict

FinalServices == result.ok["services"].dict

\* the default keys of the framework's service, the command aside
DefaultServiceKeys(name) ==
    IF name = "flask-framework"
    THEN [k \in {"override", "startup", "user"} |->
            CASE k = "override" -> S("replace")
              [] k = "startup" -> S("enabled")
              [] k = "user" -> S("_daemon_")]
    ELSE [k \in {"override", "startup", "after", "user"} |->
            CASE k = "override" -> S("merge")
              [] k = "startup" -> S("enabled")
              [] k = "after" -> L(<<"statsd-exporter">>)
              [] k = "user" -> S("_daemon_")]

\* the final framework service: the user's keys, the defaults for the rest
MergedService(name, final, user) ==
    LET default == DefaultServiceKeys(name)
    IN /\ DOMAIN final = (DOMAIN user) \cup (DOMAIN default) \cup {"command"}
       /\ \A k \in DOMAIN user : final[k] = user[k]
       /\ \A k \in (DOMAIN default) \ (DOMAIN user) : final[k] = default[k]
       /\ "command" \notin DOMAIN user
             => StartsWith(final["command"].str,
                           "/bin/python3 -m gunicorn -c /" \o FrameworkOf(name)
                              \o "/gunicorn.conf.py ")

\* C13 as stated: the user's service with the framework's name is merged
\* key by key with the default, and a user service with any other name is
\* in the final manifest unchanged, next to the default service.
C13_Original ==
    \A name \in {"flask-framework", "django-framework"} :
        (Succeeded /\ Extensions = <<name>>)
        => /\ FrameworkOf(name) \in DOMAIN FinalServices
           /\ \A n \in DOMAIN UserServices :
                 IF n = FrameworkOf(name)
                 THEN MergedService(name, FinalServices[n].dict, UserServices[n].dict)
                 ELSE FinalServices[n] = UserServices[n]

\* the statsd-exporter service django generates
ExporterDefault ==
    [k \in {"override", "summary", "user", "command", "startup"} |->
        CASE k = "override" -> S("merge")
          [] k = "summary" -> S("statsd exporter service")
          [] k = "user" -> S("_daemon_")
          [] k = "command" -> S("/bin/statsd_exporter --statsd.mapping-config=/statsd-mapping.conf")
          [] k = "startup" -> S("enabled")]

\* C13: the user's service with the framework's name is merged key by key
\* with the default (the user's value for every key the user declared, the
\* default for the others), for flask and django alike; for django a user
\* service named statsd-exporter is merged in the same way with the
\* generated statsd-exporter service; a user service with any other name is
\* in the final manifest unchanged, next to the default service.
C13_ServiceMerge ==
    \A name \in {"flask-framework", "django-framework"} :
        (Succeeded /\ Extensions = <<name>>)
        => /\ FrameworkOf(name) \in DOMAIN FinalServices
           /\ \A n \in DOMAIN UserServices :
                 IF n = FrameworkOf(name)
                 THEN MergedService(name, FinalServices[n].dict, UserServices[n].dict)
                 ELSE IF name = "django-framework" /\ n = "statsd-exporter"
                 THEN FinalServices[n].dict
                         = [k \in (DOMAIN ExporterDefault) \cup (DOMAIN UserServices[n].dict) |->
                              IF k \in DOMAIN UserServices[n].dict
                              THEN UserServices[n].dict[k] ELSE ExporterDefault[k]]
                 ELSE FinalServices[n] = UserServices[n]

\* django kept the user's startup and after, took the other keys from the
\* default, and passed the service foobar through
C13_Witness ==
    /\ Succeeded
    /\ DjangoOnly
    /\ "django" \in DOMAIN UserServices
    /\ "startup" \in DOMAIN UserServices["django"].dict
    /\ FinalServices["django"].dict["startup"] = S("disabled")
    /\ FinalServices["django"].dict["after"] = L(<<"redis">>)
    /\ FinalServices["django"].dict["override"] = S("merge")
    /\ "foobar" \in DOMAIN UserServices
    /\ FinalServices["foobar"] = UserServices["foobar"]

----------------------------------------------------------------------------
\* the project paths the django prime list declares for inclusion
InclusionPaths ==
    LET prime == UserPrime("django-framework/install-app")
    IN {DropChars(prime[i], Len("django/app/")) :
           i \in {j \in 1..Len(prime) : StartsWith(prime[j], "django/app/")}}

\* the wsgi.py files at or under an inclusion path
FoundWsgi ==
    {f \in project_root.files :
        /\ f = "wsgi.py" \/ EndsWith(f, "/wsgi.py")
        /\ \E q \in InclusionPaths : f = q \/ StartsWith(f, q \o "/")}

\* a/b/wsgi.py -> a.b.wsgi
RECURSIVE Dotted(_)
Dotted(path) ==
    IF path = "" THEN ""
    ELSE IF path = ".py" THEN ""
    ELSE (IF SubSeq(path, 1, 1) = "/" THEN "." ELSE SubSeq(path, 1, 1))
            \o Dotted(DropChars(path, 1))

\* C14: for django, apply fails whenever the number of wsgi.py files found
\* under the declared prime paths is zero or at least two; a service is
\* generated only when exactly one is found and it binds application, and
\* its command then targets the dotted module path of that file followed by
\* :application.
C14_DjangoWsgi ==
    (DjangoOnly /\ Finished)
    => /\ Cardinality(FoundWsgi) # 1 => Failed
       /\ Succeeded =>
            /\ Cardinality(FoundWsgi) = 1
            /\ \A f \in FoundWsgi :
                  /\ ClaimBinds(project_root.source[f], "application")
                  /\ ("django" \notin DOMAIN UserServices
                        \/ "command" \notin DOMAIN UserServices["django"].dict)
                     => EndsWith(FinalServices["django"].dict["command"].str,
                                 " " \o Dotted(f) \o ":application")

\* two wsgi.py files under django/app/mysite: apply failed on the ambiguity
C14_Witness ==
    /\ Failed
    /\ DjangoOnly
    /\ Cardinality(FoundWsgi) = 2
    /\ result.err = "django_multiple_wsgi"
    /\ Mentions(result.err, "multiple wsgi.py")

----------------------------------------------------------------------------
\* the value holds everything the contributed value holds
RECURSIVE Covers(_, _)
Covers(value, contributed) ==
    IF IsDict(contributed)
    THEN /\ IsDict(value)
         /\ \A k \in DOMAIN contributed.dict :
               k \in DOMAIN value.dict /\ Covers(value.dict[k], contributed.dict[k])
    ELSE IF IsList(contributed)
    THEN IsList(value) /\ Range(contributed.list) \subseteq Range(value.list)
    ELSE TRUE

\* the extensions applied so far, given those still to apply
Applied(rest) == SubSeq(Extensions, 1, Len(Extensions) - Len(rest))

\* the manifest holds the steps, the service and the root keys of the extension
HasContribution(yaml, name) ==
    /\ {"run_user", "platforms", "services", "parts"} \subseteq DOMAIN yaml
    /\ FrameworkOf(name) \in DOMAIN yaml["services"].dict
    /\ {name \o "/dependencies", name \o "/install-app", name \o "/gunicorn-config"}
          \subseteq DOMAIN yaml["parts"].dict

\* C15: extensions are applied one after the other in their declared order:
\* the snippet of an extension is wholly merged into the accumulated
\* manifest before the next extension is instantiated, so the manifest
\* given to extension k+1 holds every contribution of extensions 1..k.
C15_SequentialOrder ==
    [][/\ pc = "merge" =>
            /\ \A k \in DOMAIN snippet :
                  k \in DOMAIN yaml_data' /\ Covers(yaml_data'[k], snippet[k])
            /\ declared' = Tail(declared)
       /\ pc' \in {"validate", "root", "merge"} =>
            /\ declared' # <<>>
            /\ Applied(declared') \o declared' = Extensions
            /\ \A i \in 1..Len(Applied(declared')) :
                  HasContribution(yaml_data', Extensions[i])
       /\ pc \in {"validate", "root"} => yaml_data' = yaml_data]_vars

\* django is asked for its snippet after flask: the manifest it is given
\* holds the flask service, steps and build-base
C15_Witness ==
    /\ pc = "root"
    /\ Extensions = <<"flask-framework", "django-framework">>
    /\ declared = <<"django-framework">>
    /\ HasContribution(yaml_data, "flask-framework")
    /\ "services" \notin DOMAIN manifest
    /\ yaml_data["build-base"] = S("ubuntu@22.04")

----------------------------------------------------------------------------
\* the steps of a manifest, and the keys of one of them
Steps(yaml) == Get(yaml, "parts", D(EmptyDict)).dict

StepKeys(yaml, n) == IF n \in DOMAIN Steps(yaml) THEN DOMAIN Steps(yaml)[n].dict ELSE {}

\* the keys django generates for its steps
DjangoStepKeys(n) ==
    CASE n = "django-framework/install-app" -> {"plugin", "source", "organize", "stage"}
      [] n = "django-framework/gunicorn-config" -> {"plugin", "override-build"}
      [] n = "django-framework/dependencies" ->
            {"plugin", "stage-packages", "source", "python-packages", "python-requirements"}
      [] n = "django-framework/statsd-exporter" ->
            {"plugin", "build-snaps", "source", "source-tag"}
      [] n = "django-framework/statsd-mapping" -> {"plugin", "override-build"}
      [] OTHER -> {}

\* C16: a step name occurs once in the manifest and merging two definitions
\* of a step never drops a key of either side: the merged step has the union
\* of both key sets, for a user-declared step merged with an extension step
\* (by the applicator, and by django inside its snippet) and for a step
\* that two sequential extensions contribute.
C16_StepKeyUnion ==
    [][pc = "merge" =>
        /\ DOMAIN Steps(yaml_data') = (DOMAIN Steps(yaml_data)) \cup (DOMAIN Steps(snippet))
        /\ \A n \in DOMAIN Steps(yaml_data') :
              StepKeys(yaml_data', n) = StepKeys(yaml_data, n) \cup StepKeys(snippet, n)
        /\ Head(declared) = "django-framework" =>
              \A n \in DOMAIN Steps(snippet) :
                  StepKeys(snippet, n) = StepKeys(yaml_data, n) \cup DjangoStepKeys(n)]_vars

\* the user's build-packages and the extension's keys are all in the step
C16_Witness ==
    /\ Succeeded
    /\ StepKeys(manifest, "flask-framework/dependencies") = {"build-packages"}
    /\ StepKeys(manifest, "django-framework/dependencies") = {"build-packages"}
    /\ Extensions = <<"django-framework", "flask-framework">>
    /\ StepKeys(result.ok, "flask-framework/dependencies")
          = {"build-packages", "plugin", "stage-packages", "source", "python-packages",
             "python-requirements"}
    /\ StepKeys(result.ok, "django-framework/dependencies")
          = {"build-packages", "plugin", "stage-packages", "source", "python-packages",
             "python-requirements"}

----------------------------------------------------------------------------
\* the items of b that are not in a and not earlier in b, in their order
RECURSIVE NotYetIn(_, _)
NotYetIn(a, b) ==
    IF b = <<>> THEN <<>>
    ELSE IF b[1] \in Range(a) THEN NotYetIn(a, Tail(b))
    ELSE <<b[1]>> \o NotYetIn(Append(a, b[1]), Tail(b))

\* the reference merge of the claim: A is the extension's value, B the
\* value that overrides it; sequences are concatenated
RECURSIVE MergeConcat(_, _)
MergeConcat(A, B) ==
    IF IsDict(A) /\ IsDict(B)
    THEN D([k \in (DOMAIN A.dict) \cup (DOMAIN B.dict) |->
              IF k \notin DOMAIN B.dict THEN A.dict[k]
              ELSE IF k \notin DOMAIN A.dict THEN B.dict[k]
              ELSE MergeConcat(A.dict[k], B.dict[k])])
    ELSE IF IsList(A) /\ IsList(B) THEN L(A.list \o B.list)
    ELSE B

\* the same, with the items of B left out that the sequence already holds
RECURSIVE MergeNew(_, _)
MergeNew(A, B) ==
    IF IsDict(A) /\ IsDict(B)
    THEN D([k \in (DOMAIN A.dict) \cup (DOMAIN B.dict) |->
              IF k \notin DOMAIN B.dict THEN A.dict[k]
              ELSE IF k \notin DOMAIN A.dict THEN B.dict[k]
              ELSE MergeNew(A.dict[k], B.dict[k])])
    ELSE IF IsList(A) /\ IsList(B) THEN L(A.list \o NotYetIn(A.list, B.list))
    ELSE B

\* the manifest with a parts key, as the snippet is merged into it
Accumulated == D(IF "parts" \in DOMAIN yaml_data THEN yaml_data
                 ELSE Put(yaml_data, "parts", D(EmptyDict)))

\* C17 as stated: merging a snippet gives, key by key, the union of two
\* mappings, a shared key holding the recursive merge, the concatenation of
\* two sequences with duplicates preserved, and the overriding scalar.
C17_Original ==
    [][pc = "merge" => D(yaml_data') = MergeConcat(D(snippet), Accumulated)]_vars

\* C17: merge(A,B) of two mappings has exactly the union of their keys, a
\* key of one side only carried unchanged and a shared key holding the
\* recursive merge; for two sequences it is A followed by the items of B
\* that are not in it yet, in their order; for two scalars the overriding
\* value wins.
C17_PropertyMerger ==
    [][pc = "merge" => D(yaml_data') = MergeNew(D(snippet), Accumulated)]_vars

\* the user's prime list and the extension's were merged without repeating
\* an entry, and both differ from their concatenation
C17_Witness ==
    /\ pc = "return"
    /\ FlaskOnly
    /\ UserPrime("flask-framework/install-app") = <<"flask/app/test", "flask/app/app.py">>
    /\ Steps(yaml_data)["flask-framework/install-app"].dict["prime"]
          = L(<<"flask/app/test", "flask/app/app.py">>)
    /\ Steps(yaml_data)["flask-framework/install-app"].dict["plugin"] = S("dump")

----------------------------------------------------------------------------
Bases == {None, "bare", "ubuntu@20.04", "ubuntu@22.04", "ubuntu@24.04", "ubuntu:20.04",
          "ubuntu:22.04"}

----------------------------------------------------------------------------
RequirementsErrors == {"flask_requirements", "django_requirements"}

DjangoEntryPointErrors == {"django_no_wsgi", "django_multiple_wsgi", "django_no_application"}

\* the extension at work, the prime list the user declared for it
Current == Head(declared)

CurrentPrime == UserPrime(InstallApp(Current))

\* the entry point is missing or invalid
EntryPointFails ==
    IF Current = "flask-framework"
    THEN /\ ~ HasCustomCommand
         /\ \/ ~ Exists(project_root, "app.py")
            \/ ~ ClaimBinds(project_root.source["app.py"], "app")
    ELSE \/ Cardinality(FoundWsgi) # 1
         \/ \E f \in FoundWsgi : ~ ClaimBinds(project_root.source[f], "application")

----------------------------------------------------------------------------
\* a path of the project: not absolute, no component that leaves the
\* directory, no exclusion marker
ProjectRelative(p) ==
    /\ p # ""
    /\ ~ StartsWith(p, "/")
    /\ \A i \in 1..Len(Split(p)) : Split(p)[i] # ".." /\ ~ Marked(Split(p)[i])

\* C20: whenever the flask derivation succeeds, every entry of the generated
\* install-app organize map sends a project-relative source path p (never a
\* path that leaves the project root, never an exclusion-marked string) to
\* flask/app/<p>, and the generated stage list is the list of the map's
\* destinations.
C20_RenamingMap ==
    (pc = "merge" /\ Head(declared) = "flask-framework") =>
        LET install == Steps(snippet)["flask-framework/install-app"].dict
            organize == install["organize"].dict
        IN /\ \A p \in DOMAIN organize :
                 ProjectRelative(p) /\ organize[p] = S("flask/app/" \o p)
           /\ StagesMap(install["stage"].list, organize)

----------------------------------------------------------------------------
\* C21: the manifest that init writes for a framework profile is accepted by
\* the extension it declares: for profile flask-framework and for profile
\* django-framework the template's base is one of the extension's
\* get_supported_bases(), and applying the extensions to the freshly written
\* manifest does not end with the unsupported-base error.
FreshProfile(profile) == manifest = TEMPLATES(profile, manifest["name"].str)

C21_InitTemplateAccepted ==
    \A profile \in FrameworkProfiles :
        ("name" \in DOMAIN manifest /\ FreshProfile(profile) /\ Finished)
            => /\ manifest["base"].str \in Range(get_supported_bases(profile))
               /\ result # [err |-> "unsupported_base"]

====
